---- MODULE Spec2Model ----
(***************************************************************************)
(* A model of the orchestration engine of the AI Operations Assistant:     *)
(* run_task (main.py), PlannerAgent.plan, VerifierAgent.verify, the        *)
(* ExecutorAgent and the pydantic schemas they validate against.           *)
(*                                                                         *)
(* Modelling conventions                                                   *)
(*  - Python's None is the string None in string-valued fields.            *)
(*  - A model reply is a record: fmt says what the raw text looks like     *)
(*    ("json": a JSON document, "prose": text with no JSON in it, "empty": *)
(*    the empty string) and, for "json", doc is the document the text      *)
(*    holds.  tool_args, assumptions, issues, data and meta are opaque to  *)
(*    the control flow and are left out of the documents.                  *)
(*  - depends_on is a list in the code, used only through membership and   *)
(*    iteration; it is a set here.                                         *)
(*  - One action is one handler step: one iteration of a repair loop, one  *)
(*    iteration of the Executor's step loop, one evaluation of the round   *)
(*    loop's condition.                                                    *)
(*  - Spec is a /run request as main.py serves it (a GroqClient for every  *)
(*    agent, the registry of tools/registry.py, max_rounds in 1..5, tool   *)
(*    calls by outcome class).  ExecSpec runs the same actions with the    *)
(*    Executor's configuration as an input and fix lists of several steps, *)
(*    ToolSpec with the tools' own return paths.  ChatSpec is one         *)
(*    GroqClient.chat call, attempt by attempt; ConcSpec is two run_task   *)
(*    invocations served at once, each plan() and verify() call one step;  *)
(*    ParseSpec is safe_json_loads on a reply given character by character *)
(*    (x: a character of prose; the JSON documents of this alphabet are    *)
(*    {}, [] and an array of one document).                                *)
(***************************************************************************)
EXTENDS Integers, Sequences, FiniteSets, TLC

VARIABLES
    pc,             \* position of run_task
    task,           \* run_task's task argument
    max_rounds,     \* run_task's max_rounds argument
    plan,           \* run_task's local plan
    state,          \* run_task's local state (the ExecutionState)
    verification,   \* run_task's local verification
    rounds,         \* run_task's local rounds
    messages,       \* plan()/verify()'s local messages
    last_err,       \* plan()/verify()'s local last_err
    last_text,      \* plan()/verify()'s local last_text
    attempt,        \* plan()/verify()'s loop variable: iterations completed
    batch,          \* _run_steps' steps argument
    stepIdx,        \* _run_steps' position in steps (1-based)
    response,       \* the RunResponse run_task returns
    failure,        \* the exception that ended run_task, if any
    plannerCalls,   \* history: llm.chat calls made by plan()
    verifierCalls,  \* history: llm.chat calls made by the latest verify()
    lastReply,      \* history: the reply to the latest of these calls
    execBatches,    \* history: executor.run and run_fix_steps calls made
    verifyCalls,    \* history: verify() invocations started
    llm,            \* ExecutorAgent.llm: the composer's model client, or None
    registry,       \* the keys of _TOOL_REGISTRY
    lastCall,       \* history: what the latest step of _run_steps called
    toolTrace,      \* history: the providers its tool.call contacted
    http,           \* what the /run handler answered
    chat,           \* GroqClient.chat under with_retry: the call in progress
    runs,           \* concurrent run_task invocations: the locals of each
    heap,           \* the ExecutionState objects their Executors created
    parse           \* safe_json_loads: the text it is given and what comes of it

vars == <<pc, task, max_rounds, plan, state, verification, rounds, messages,
          last_err, last_text, attempt, batch, stepIdx, response, failure,
          plannerCalls, verifierCalls, lastReply, execBatches, verifyCalls,
          llm, registry, lastCall, toolTrace, http, chat, runs, heap,
          parse>>

None == "None"

(***************************************************************************)
(* Program constants.                                                      *)
(***************************************************************************)
MinRounds == 1
MaxRounds == 5
\* Mutant: one repair turn too many.
PlannerAttemptsOffByOne == 3 + 1
PlannerAttempts == 3
VerifierAttempts == 3
MinStepId == 1
MinFixStepId == 1000
ToolNames == {"weather_current", "github_repo_search", "news_search"}
ToolRegistry == {"github_repo_search", "weather_current", "news_search"}

(***************************************************************************)
(* Documents and schema validation (agents/schemas.py).                    *)
(***************************************************************************)
Step(id, action, tool, key, deps) ==
    [id |-> id, action |-> action, tool_name |-> tool, output_key |-> key,
     depends_on |-> deps]

StepIds(steps) == [i \in 1..Len(steps) |-> steps[i].id]

Distinct(seq) == \A i, j \in 1..Len(seq) : seq[i] = seq[j] => i = j

\* Mutant: no depends_on_no_self validator.
PlanStepErrorNoSelfCheck(s) ==
    IF s.id < MinStepId THEN "id: greater_than_equal"
    ELSE IF s.action = "" THEN "action: string_too_short"
    ELSE IF s.tool_name /= None /\ s.tool_name \notin ToolNames
         THEN "tool_name: literal_error"
    ELSE IF s.output_key = "" THEN "output_key: string_too_short"
    ELSE "ok"

\* PlanStep: field constraints, then the depends_on_no_self validator.
\* The result is "ok" or the validation error.
PlanStepError(s) ==
    IF s.id < MinStepId THEN "id: greater_than_equal"
    ELSE IF s.action = "" THEN "action: string_too_short"
    ELSE IF s.tool_name /= None /\ s.tool_name \notin ToolNames
         THEN "tool_name: literal_error"
    ELSE IF s.output_key = "" THEN "output_key: string_too_short"
    ELSE IF s.id \in s.depends_on THEN "depends_on cannot include step id itself"
    ELSE "ok"

\* Mutant: unique_ids without its compose_final check.
UniqueIdsErrorIdsOnly(steps) ==
    IF ~Distinct(StepIds(steps)) THEN "Step ids must be unique" ELSE "ok"

\* AgentPlan.unique_ids, run on the steps once each of them is a PlanStep.
UniqueIdsError(steps) ==
    IF ~Distinct(StepIds(steps)) THEN "Step ids must be unique"
    ELSE IF steps[Len(steps)].output_key /= "final"
            \/ steps[Len(steps)].tool_name /= None
         THEN "Last step must be compose_final"
    ELSE "ok"

\* AgentPlan.model_validate.
AgentPlanError(doc) ==
    IF doc.objective = "" THEN "objective: string_too_short"
    ELSE IF \E i \in 1..Len(doc.steps) : PlanStepError(doc.steps[i]) /= "ok"
         THEN LET i == CHOOSE k \in 1..Len(doc.steps) :
                           /\ PlanStepError(doc.steps[k]) /= "ok"
                           /\ \A m \in 1..(k - 1) : PlanStepError(doc.steps[m]) = "ok"
              IN PlanStepError(doc.steps[i])
    ELSE IF Len(doc.steps) < 1 THEN "steps: too_short"
    ELSE UniqueIdsError(doc.steps)

\* VerifierStep: id >= 1000, a tool name of the Literal, the other fields
\* unconstrained strings and lists.
\* Mutant: tool_name is optional, as it is in PlanStep.
VerifierStepErrorOptionalTool(s) ==
    IF s.id < MinFixStepId THEN "id: greater_than_equal"
    ELSE IF s.tool_name /= None /\ s.tool_name \notin ToolNames
         THEN "tool_name: literal_error"
    ELSE "ok"

VerifierStepError(s) ==
    IF s.id < MinFixStepId THEN "id: greater_than_equal"
    ELSE IF s.tool_name \notin ToolNames THEN "tool_name: literal_error"
    ELSE "ok"

\* VerificationResult.model_validate.
VerificationResultError(doc) ==
    IF doc.status \notin {"complete", "needs_fix"} THEN "status: literal_error"
    ELSE IF \E i \in 1..Len(doc.fix_steps) : VerifierStepError(doc.fix_steps[i]) /= "ok"
         THEN LET i == CHOOSE k \in 1..Len(doc.fix_steps) :
                           /\ VerifierStepError(doc.fix_steps[k]) /= "ok"
                           /\ \A m \in 1..(k - 1) :
                                  VerifierStepError(doc.fix_steps[m]) = "ok"
              IN VerifierStepError(doc.fix_steps[i])
    ELSE "ok"

(***************************************************************************)
(* safe_json_loads (llm/groq_client.py) on a reply: the parsed document,   *)
(* or a parse failure.                                                     *)
(***************************************************************************)
\* Mutant: json.loads is given something it never parses.
ParseFailsAlways(reply) == reply.fmt = reply.fmt
ParseFails(reply) == reply.fmt /= "json"

ParseError == "Could not parse JSON from model output."

\* What one iteration of plan()'s loop makes of a reply: "ok" or str(e).
PlannerReplyError(reply) ==
    IF ParseFails(reply) THEN ParseError ELSE AgentPlanError(reply.doc)

\* What one iteration of verify()'s loop makes of a reply.
VerifierReplyError(reply) ==
    IF ParseFails(reply) THEN ParseError ELSE VerificationResultError(reply.doc)

(***************************************************************************)
(* Messages, results and the placeholders of locals not yet bound.         *)
(***************************************************************************)
NoReply == [fmt |-> "none"]

SystemMsg(stage) == [role |-> "system", stage |-> stage]

\* The first user turn: the template of the stage filled in.  The planner's
\* carries the task (and the tool catalog, a constant); the verifier's the
\* task, the plan and the results.
PlannerUserMsg(t) == [role |-> "user", kind |-> "task", task |-> t]

\* Mutant: the results are left out of the verifier's prompt.
VerifierUserMsgNoResults(t, p, results) ==
    [role |-> "user", kind |-> "task", task |-> t, plan |-> p, results |-> <<>>]

VerifierUserMsg(t, p, results) ==
    [role |-> "user", kind |-> "task", task |-> t, plan |-> p, results |-> results]

\* repair_user: the error text and the previous output.
RepairMsg(err, text) ==
    [role |-> "user", kind |-> "repair", error |-> err, previous |-> text]

NoPlan == [objective |-> "", steps |-> <<>>]
NoVerification == [status |-> None, fix_steps |-> <<>>, final_output |-> None]
NoState == [task |-> "", plan |-> NoPlan, results |-> <<>>, step_status |-> <<>>,
            logs |-> <<>>]
NoResponse == [task |-> "", plan |-> NoPlan, results |-> <<>>,
               verification |-> NoVerification, final_output |-> None,
               logs |-> <<>>]

\* No tool.call was made, or nothing is known of what it contacted.
NoTrace == [attempts |-> <<>>]

\* The /run handler has not answered yet.
NoAnswer == [status_code |-> 0]

\* ToolResult(...).model_dump(), and the {"text": ...} record of a composed step.
ToolResult(ok, tool, error) ==
    [kind |-> "tool", ok |-> ok, tool_name |-> tool, error |-> error, text |-> None]
TextResult(text) ==
    [kind |-> "text", ok |-> TRUE, tool_name |-> None, error |-> None, text |-> text]

Log(id, event, info) == [step |-> id, event |-> event, info |-> info]

\* dict.get(key): None when the key is absent.
Get(f, k) == IF k \in DOMAIN f THEN f[k] ELSE None

\* Mutant: the assignment replaces the dict.
PutFresh(f, k, v) == k :> v

\* dict[key] = value.
Put(f, k, v) == (k :> v) @@ f

(***************************************************************************)
(* The inputs: the task and round budget of the /run request, the replies  *)
(* of the model, the outcomes of the tool capabilities.                    *)
(***************************************************************************)
Tasks == {"weather in Paris"}

RoundBudgets == MinRounds..MaxRounds

JsonReply(doc) == [fmt |-> "json", doc |-> doc]
ProseReply == [fmt |-> "prose"]
EmptyReply == [fmt |-> "empty"]

WeatherStep(deps) == Step(1, "get weather", "weather_current", "weather", deps)
FinalStep(id, deps) == Step(id, "compose answer", None, "final", deps)

\* The plans the model proposes: the weather scenario, a compose-only plan, a
\* plan whose two steps wait for each other, and documents the schema is to reject.
PlanDocs ==
    { [objective |-> "report weather", steps |-> st] : st \in
        { <<WeatherStep({}), FinalStep(2, {1})>>,
          <<WeatherStep({}), FinalStep(2, {})>>,
          <<FinalStep(1, {})>>,
          <<WeatherStep({2}), FinalStep(2, {1})>>,
          <<>>,
          <<WeatherStep({})>>,
          <<Step(1, "note", None, "note", {})>>,
          <<WeatherStep({}), FinalStep(1, {})>>,
          <<WeatherStep({}), FinalStep(2, {1, 2})>> } }

PlannerReplies == {ProseReply, EmptyReply} \cup {JsonReply(d) : d \in PlanDocs}

FixStep(id, action, deps) == Step(id, action, "weather_current", "weather", deps)

RetryWeather == <<FixStep(1000, "retry weather", {})>>

\* final_output is read only when run_task returns, so the verifications that
\* lead to a retry all carry the same one.
VerificationDocs ==
    { [status |-> "complete", fix_steps |-> f, final_output |-> o] :
        f \in {<<>>, RetryWeather}, o \in {"{}", "{summary}"} }
    \cup
    { [status |-> "needs_fix", fix_steps |-> <<>>, final_output |-> o] :
        o \in {"{}", "{summary}"} }
    \cup
    { [status |-> "needs_fix", fix_steps |-> f, final_output |-> "{}"] :
        f \in { RetryWeather,
                <<FixStep(1000, "retry weather", {1000})>>,
                <<FixStep(999, "retry weather", {})>> } }

VerifierReplies == {ProseReply} \cup {JsonReply(d) : d \in VerificationDocs}

\* The text the composer model returns, already stripped.
ComposedTexts == {"composed text"}

\* What tool.call(tool_args) does: return a ToolResult, or raise an exception
\* e, of which str(e) is kept.
ToolOutcomes(tool) ==
    { [raised |-> FALSE, result |-> ToolResult(TRUE, tool, None)],
      [raised |-> FALSE, result |-> ToolResult(FALSE, tool, "provider failed")],
      [raised |-> TRUE, message |-> "exception text"] }

OutcomesByTool == [tool \in ToolNames |-> ToolOutcomes(tool)]

(***************************************************************************)
(* The Executor on its own terms: ExecutorAgent(llm=None) is allowed by its *)
(* constructor, _TOOL_REGISTRY is a module-level dict a deployment may      *)
(* register fewer tools in, and the verifier may propose several fix steps. *)
(***************************************************************************)
MaxExecRounds == 3

ExecRoundBudgets == MinRounds..MaxExecRounds

Composers == {"GroqClient", None}

Registries == {ToolRegistry, ToolRegistry \ {"news_search"}}

NewsStep(deps) == Step(1, "find news", "news_search", "news", deps)
ReposStep(deps) == Step(2, "find repos", "github_repo_search", "repos", deps)

ExecPlanDocs ==
    { [objective |-> "report", steps |-> st] : st \in
        { <<WeatherStep({}), FinalStep(2, {1})>>,
          <<NewsStep({}), ReposStep({}), FinalStep(3, {2})>>,
          <<NewsStep({}), ReposStep({1}), FinalStep(3, {2})>>,
          <<Step(1000, "get weather", "weather_current", "weather", {}),
            FinalStep(1001, {1000})>> } }

ExecPlannerReplies == {JsonReply(d) : d \in ExecPlanDocs}

\* A fix list whose first step waits for its second, lists PlanStep
\* rejects (a step that depends on itself, a step with no action text) and a
\* list VerifierStep rejects: a step with no tool.
ExecFixLists ==
    { <<FixStep(1001, "explain weather", {1000}), FixStep(1000, "retry weather", {})>>,
      <<FixStep(1000, "retry weather", {1000})>>,
      <<FixStep(1000, "", {})>>,
      <<Step(1002, "compose answer", None, "final", {})>> }

ExecVerificationDocs ==
    { [status |-> "complete", fix_steps |-> <<>>, final_output |-> "{summary}"],
      [status |-> "needs_fix", fix_steps |-> <<>>, final_output |-> "{}"] }
    \cup
    { [status |-> "needs_fix", fix_steps |-> f, final_output |-> "{}"] :
        f \in ExecFixLists }

ExecVerifierReplies == {JsonReply(d) : d \in ExecVerificationDocs}

(***************************************************************************)
(* The tool capabilities (tools/*.py).  What a provider answers is one of  *)
(* ProviderResponses; a call returns a ToolResult or raises.  data and     *)
(* meta are left out, an error text stands for the message it starts with. *)
(***************************************************************************)
Returned(res) == [raised |-> FALSE, result |-> res]
Raised(msg) == [raised |-> TRUE, message |-> msg]

\* One provider contacted by a tool.call, and what came of the request.
Attempt(provider, resp) == [provider |-> provider, response |-> resp]

\* An outcome of tool.call with the arguments and key it ran with and the
\* providers it contacted, in order.
Traced(outcome, arg, key, attempts) ==
    [arg |-> arg, key |-> key, attempts |-> attempts] @@ outcome

TraceOf(o) ==
    IF "attempts" \in DOMAIN o
    THEN [arg |-> o.arg, key |-> o.key, attempts |-> o.attempts]
    ELSE NoTrace

\* A usable answer; _get gave up (a network error, or a transient status on
\* every try: RetryableError); a status that is not ok; a body that is no
\* JSON or XML; a body that parses and holds nothing usable.
ProviderResponses ==
    {"ok", "request failed", "http error", "unparsable body", "unusable body"}

\* WeatherTool._openweather_current and _open_meteo_current: neither _get's
\* error nor r.json()'s is caught; a geocoding answer without a place and a
\* bad status are returned as failures.
WeatherProvider(name, resp) ==
    CASE resp = "ok" -> Returned(ToolResult(TRUE, "weather_current", None))
      [] resp = "request failed" -> Raised("HTTP request failed")
      [] resp = "http error" ->
            Returned(ToolResult(FALSE, "weather_current", name \o " error"))
      [] resp = "unusable body" ->
            Returned(ToolResult(FALSE, "weather_current", name \o " geocode failed"))
      [] resp = "unparsable body" -> Raised("JSONDecodeError")

\* Mutant: the combined failure carries no error.
CombinedFailureNoError(ow_error, om_error) ==
    ToolResult(FALSE, "weather_current", None)

\* The last return of WeatherTool.call.
CombinedFailure(ow_error, om_error) ==
    ToolResult(FALSE, "weather_current", "Weather lookup failed.")

\* WeatherTool.call: OpenWeather when its key is set, then Open-Meteo.
WeatherCall(city, key, ow, om) ==
    IF city = ""
    THEN Traced(Returned(ToolResult(FALSE, "weather_current", "Missing 'city'")),
                city, key, <<>>)
    ELSE LET ow_res == WeatherProvider("OpenWeather", ow)
             om_res == WeatherProvider("Open-Meteo", om)
             tried == key /= ""
             first == IF tried THEN <<Attempt("OpenWeather", ow)>> ELSE <<>>
             both == Append(first, Attempt("Open-Meteo", om))
         IN IF tried /\ ow_res.raised THEN Traced(ow_res, city, key, first)
            ELSE IF tried /\ ow_res.result.ok THEN Traced(ow_res, city, key, first)
            ELSE IF om_res.raised THEN Traced(om_res, city, key, both)
            ELSE IF om_res.result.ok THEN Traced(om_res, city, key, both)
            ELSE Traced(Returned(CombinedFailure(
                            IF tried THEN ow_res.result.error ELSE None,
                            om_res.result.error)),
                        city, key, both)

\* GitHubTool.call: int(top_n) comes before the query test, _get is inside a
\* try, r.json() is not; a search with no items is a success.
GitHubCall(query, top_n, resp) ==
    IF top_n = "many"
    THEN Traced(Raised("invalid literal for int()"), query, "", <<>>)
    ELSE IF query = ""
         THEN Traced(Returned(ToolResult(FALSE, "github_repo_search", "Missing 'query'")),
                     query, "", <<>>)
    ELSE Traced(
           CASE resp \in {"ok", "unusable body"} ->
                  Returned(ToolResult(TRUE, "github_repo_search", None))
             [] resp = "request failed" ->
                  Returned(ToolResult(FALSE, "github_repo_search", "GitHub request failed"))
             [] resp = "http error" ->
                  Returned(ToolResult(FALSE, "github_repo_search", "GitHub error"))
             [] resp = "unparsable body" -> Raised("JSONDecodeError"),
           query, "", <<Attempt("GitHub", resp)>>)

\* NewsTool._newsapi_search, _gdelt_search and _googlenews_rss_search: _get is
\* inside a try and a body that does not parse is returned as a failure; an
\* error payload of NewsAPI is a failure, an empty list of articles a success.
NewsProvider(name, resp) ==
    CASE resp = "ok" -> Returned(ToolResult(TRUE, "news_search", None))
      [] resp = "request failed" ->
            Returned(ToolResult(FALSE, "news_search", "News request failed"))
      [] resp = "http error" ->
            Returned(ToolResult(FALSE, "news_search", name \o " error"))
      [] resp = "unparsable body" ->
            Returned(ToolResult(FALSE, "news_search", name \o " parse error"))
      [] resp = "unusable body" ->
            IF name = "NewsAPI"
            THEN Returned(ToolResult(FALSE, "news_search", "NewsAPI returned error"))
            ELSE Returned(ToolResult(TRUE, "news_search", None))

\* Mutant: NewsAPI is tried without a key too.
NewsCallAlwaysNewsApi(query, top_n, key, na, gd, rss) ==
    IF top_n = "many"
    THEN Traced(Raised("invalid literal for int()"), query, key, <<>>)
    ELSE IF query = ""
         THEN Traced(Returned(ToolResult(FALSE, "news_search", "Missing 'query'")),
                     query, key, <<>>)
    ELSE LET na_res == NewsProvider("NewsAPI", na)
             gd_res == NewsProvider("GDELT", gd)
             rss_res == NewsProvider("Google News RSS", rss)
             first == <<Attempt("NewsAPI", na)>>
             second == Append(first, Attempt("GDELT", gd))
             third == Append(second, Attempt("Google News RSS", rss))
         IN IF na_res.result.ok THEN Traced(na_res, query, key, first)
            ELSE IF gd_res.result.ok THEN Traced(gd_res, query, key, second)
            ELSE Traced(rss_res, query, key, third)

\* NewsTool.call: NewsAPI when its key is set, then GDELT, then Google News
\* RSS, whose result is returned when all have failed.
NewsCall(query, top_n, key, na, gd, rss) ==
    IF top_n = "many"
    THEN Traced(Raised("invalid literal for int()"), query, key, <<>>)
    ELSE IF query = ""
         THEN Traced(Returned(ToolResult(FALSE, "news_search", "Missing 'query'")),
                     query, key, <<>>)
    ELSE LET na_res == NewsProvider("NewsAPI", na)
             gd_res == NewsProvider("GDELT", gd)
             rss_res == NewsProvider("Google News RSS", rss)
             tried == key /= ""
             first == IF tried THEN <<Attempt("NewsAPI", na)>> ELSE <<>>
             second == Append(first, Attempt("GDELT", gd))
             third == Append(second, Attempt("Google News RSS", rss))
         IN IF tried /\ na_res.result.ok THEN Traced(na_res, query, key, first)
            ELSE IF gd_res.result.ok THEN Traced(gd_res, query, key, second)
            ELSE Traced(rss_res, query, key, third)

ToolArgTexts == {"", "Paris"}
TopNs == {"5", "many"}
ApiKeys == {"", "key"}

\* Everything tool.call(tool_args) can do, per tool.
ToolCalls ==
    [tool \in ToolNames |->
        CASE tool = "weather_current" ->
               { WeatherCall(city, key, ow, om) :
                   city \in ToolArgTexts, key \in ApiKeys,
                   ow \in ProviderResponses, om \in ProviderResponses }
          [] tool = "github_repo_search" ->
               { GitHubCall(query, top_n, resp) :
                   query \in ToolArgTexts, top_n \in TopNs, resp \in ProviderResponses }
          [] tool = "news_search" ->
               { NewsCall(query, top_n, key, na, gd, rss) :
                   query \in ToolArgTexts, top_n \in TopNs, key \in ApiKeys,
                   na \in ProviderResponses, gd \in ProviderResponses,
                   rss \in ProviderResponses }]

MaxToolRounds == 2

ToolRoundBudgets == MinRounds..MaxToolRounds

ToolVerificationDocs ==
    { [status |-> "complete", fix_steps |-> <<>>, final_output |-> "{summary}"],
      [status |-> "needs_fix", fix_steps |-> RetryWeather, final_output |-> "{}"],
      [status |-> "needs_fix", fix_steps |-> <<FixStep(1000, "retry weather", {1000})>>,
       final_output |-> "{}"] }

ToolVerifierReplies == {JsonReply(d) : d \in ToolVerificationDocs}

(***************************************************************************)
(* The model gateway's HTTP client (llm/groq_client.py, utils/retry.py).   *)
(***************************************************************************)
ChatAttempts == 4

\* r.status_code in (429, 500, 502, 503, 504)
TransientStatuses == {429, 500, 502, 503, 504}

\* What requests.post does: it raises a RequestException (failed), or it
\* returns a response with a status and a body.
GroqAnswers ==
    {[failed |-> TRUE, status_code |-> 0, body |-> ""]}
    \cup [failed : {FALSE}, status_code : TransientStatuses \cup {400, 401, 404},
          body : {"error text"}]
    \cup [failed : {FALSE}, status_code : {200},
          body : {"chat completion", "not a chat completion"}]

\* requests' Response.ok
ResponseOk(r) == r.status_code < 400

NoChat == [status |-> "idle", seen |-> <<>>, content |-> None, error |-> None]

ChatError(type, text, status_code) ==
    [type |-> type, text |-> text, status_code |-> status_code]

\* The body of GroqClient.chat for one answer of the request.
ChatBody(r) ==
    IF r.failed
    THEN [raised |-> TRUE,
          error |-> ChatError("RetryableError", "Groq request failed", 0)]
    ELSE IF r.status_code \in TransientStatuses
    THEN [raised |-> TRUE,
          error |-> ChatError("RetryableError", "Groq transient error",
                              r.status_code)]
    ELSE IF ~ResponseOk(r)
    THEN [raised |-> TRUE,
          error |-> ChatError("RuntimeError", "Groq error", r.status_code)]
    ELSE IF r.body /= "chat completion"
    THEN [raised |-> TRUE,
          error |-> ChatError("KeyError", "choices", r.status_code)]
    ELSE [raised |-> FALSE, content |-> r.body]

\* Mutant: every exception is retried.
ShouldRetryAnyError(error, attempts_made, attempts) == attempts_made < attempts

\* tenacity: retry_if_exception_type((RetryableError,)) and
\* stop_after_attempt(attempts).
ShouldRetry(error, attempts_made, attempts) ==
    error.type = "RetryableError" /\ attempts_made < attempts

(***************************************************************************)
(* safe_json_loads (llm/groq_client.py), on texts over a small alphabet.   *)
(***************************************************************************)
Alphabet == {"x", " ", "{", "}", "[", "]"}

MaxTextLen == 6

Texts == UNION {[1..n -> Alphabet] : n \in 0..MaxTextLen}

MinOf(S) == CHOOSE m \in S : \A k \in S : m <= k
MaxOf(S) == CHOOSE m \in S : \A k \in S : m >= k

\* str.strip()
Strip(text) ==
    LET inked == {i \in 1..Len(text) : text[i] /= " "}
    IN IF inked = {} THEN <<>> ELSE SubSeq(text, MinOf(inked), MaxOf(inked))

NotSpace(c) == c /= " "

\* The tokens of a text: whitespace between tokens means nothing to JSON.
Tokens(text) == SelectSeq(text, NotSpace)

\* The token lists that are a JSON document.
RECURSIVE IsJsonDocument(_)
IsJsonDocument(toks) ==
    \/ toks = <<"{", "}">>
    \/ toks = <<"[", "]">>
    \/ /\ Len(toks) > 2
       /\ toks[1] = "[" /\ toks[Len(toks)] = "]"
       /\ IsJsonDocument(SubSeq(toks, 2, Len(toks) - 1))

ParseReturned(value) == [raised |-> FALSE, value |-> value, error |-> None]
ParseRaised(error) == [raised |-> TRUE, value |-> <<>>, error |-> error]

\* json.loads: the document (its tokens), or a JSONDecodeError.
json_loads(text) ==
    IF IsJsonDocument(Tokens(text)) THEN ParseReturned(Tokens(text))
    ELSE ParseRaised("JSONDecodeError")

Closer(c) == IF c = "{" THEN "}" ELSE "]"

\* The positions where (\{.*\}|\[.*\]) matches: an opening character with
\* its kind of closing character somewhere after it.
MatchStarts(text) ==
    {p \in 1..Len(text) :
        /\ text[p] \in {"{", "["}
        /\ \E q \in (p + 1)..Len(text) : text[q] = Closer(text[p])}

\* .* is greedy: the match ends at the last closing character of its kind.
MatchEnd(text, p) ==
    MaxOf({q \in (p + 1)..Len(text) : text[q] = Closer(text[p])})

\* re.search(...).group(1): the leftmost match.
Candidate(text) ==
    LET p == MinOf(MatchStarts(text)) IN SubSeq(text, p, MatchEnd(text, p))

safe_json_loads(text) ==
    LET stripped == Strip(text)
        whole == json_loads(stripped)
    IN IF ~whole.raised THEN whole
       ELSE IF MatchStarts(stripped) /= {} THEN json_loads(Candidate(stripped))
       ELSE ParseRaised("Could not parse JSON from model output.")

NoParse == [text |-> <<>>, status |-> "idle", value |-> <<>>, error |-> None,
            then |-> "none"]

(***************************************************************************)
(* run_task starts: the agents are built and planner.plan(task) has set up *)
(* its first conversation.                                                 *)
(***************************************************************************)
RequestInit(Budgets, Llms, Regs) ==
    /\ task \in Tasks
    /\ max_rounds \in Budgets
    /\ pc = "plan"
    /\ plan = NoPlan
    /\ state = NoState
    /\ verification = NoVerification
    /\ rounds = 0
    /\ messages = <<SystemMsg("planner"), PlannerUserMsg(task)>>
    /\ last_err = None
    /\ last_text = NoReply
    /\ attempt = 0
    /\ batch = <<>>
    /\ stepIdx = 0
    /\ response = NoResponse
    /\ failure = None
    /\ plannerCalls = 0
    /\ verifierCalls = 0
    /\ lastReply = NoReply
    /\ execBatches = 0
    /\ verifyCalls = 0
    /\ llm \in Llms
    /\ registry \in Regs
    /\ lastCall = "none"
    /\ toolTrace = NoTrace
    /\ http = NoAnswer
    /\ chat = NoChat

\* One request is served: no other invocation is in progress.
InitOf(Budgets, Llms, Regs) ==
    /\ RequestInit(Budgets, Llms, Regs)
    /\ runs = <<>>
    /\ heap = <<>>
    /\ parse = NoParse

\* The /run request: run_task is given a GroqClient by _build_agents and the
\* registry of tools/registry.py.
Init == InitOf(RoundBudgets, {"GroqClient"}, {ToolRegistry})

\* What run_task leaves alone: its arguments, the configuration it runs under
\* and the answer of the handler that called it.
runVars == <<task, max_rounds, llm, registry, http, chat, runs, heap, parse>>
execVars == <<state, batch, stepIdx>>
loopVars == <<messages, last_err, last_text, attempt>>
histVars == <<plannerCalls, verifierCalls, lastReply, execBatches, verifyCalls>>

\* The history of a plan()/verify() call is kept until run_task's next
\* statement has run.
CallHistoryGone ==
    /\ plannerCalls' = 0
    /\ verifierCalls' = 0
    /\ lastReply' = NoReply
    /\ lastCall' = "none"
    /\ toolTrace' = NoTrace

\* The locals of plan()/verify() once the call has returned.
LoopLocalsGone ==
    /\ messages' = <<>>
    /\ last_err' = None
    /\ last_text' = NoReply
    /\ attempt' = 0

\* run_task ends with an exception.
Raise(what) ==
    /\ pc' = "raised"
    /\ failure' = what

(***************************************************************************)
(* PlannerAgent.plan: one iteration of the repair loop.                    *)
(***************************************************************************)
\* Mutant: the repair turn is appended to the conversation.
PlannerRepairAppends(err, reply) ==
    /\ last_err' = err
    /\ messages' = Append(messages, RepairMsg(err, reply))
    /\ attempt' = attempt + 1

\* The except branch: the conversation is replaced by the repair exchange.
PlannerRepair(err, reply) ==
    /\ last_err' = err
    /\ messages' = <<SystemMsg("planner"), RepairMsg(err, reply)>>
    /\ attempt' = attempt + 1

PlannerReply(Replies) ==
    /\ pc = "plan"
    /\ attempt < PlannerAttempts
    /\ \E reply \in Replies :
         LET err == PlannerReplyError(reply) IN
         /\ plannerCalls' = plannerCalls + 1
         /\ lastReply' = reply
         /\ IF err = "ok"
            THEN /\ plan' = reply.doc
                 /\ pc' = "planned"
                 /\ LoopLocalsGone
                 /\ UNCHANGED failure
            ELSE /\ last_text' = reply
                 /\ PlannerRepair(err, reply)
                 /\ UNCHANGED plan
                 /\ IF attempt + 1 < PlannerAttempts
                    THEN pc' = "plan" /\ UNCHANGED failure
                    ELSE Raise("PlannerAgent failed to produce valid plan")
    /\ UNCHANGED <<runVars, execVars, verification, rounds, response,
                   verifierCalls, execBatches, verifyCalls, lastCall, toolTrace>>

\* Mutant: the exception of llm.chat is caught like a parse failure and the
\* loop goes on with a repair turn.
PlannerChatRaisesCaught ==
    /\ pc = "plan"
    /\ attempt < PlannerAttempts
    /\ plannerCalls' = plannerCalls + 1
    /\ failure' = "planner: model gateway error"
    /\ PlannerRepair("planner: model gateway error", last_text)
    /\ UNCHANGED <<runVars, execVars, pc, last_text, plan, verification, rounds,
                   response, verifierCalls, lastReply, execBatches, verifyCalls,
                   lastCall, toolTrace>>

\* llm.chat raises (retries exhausted, or a non-retryable status): plan() does
\* not catch it.
PlannerChatRaises ==
    /\ pc = "plan"
    /\ attempt < PlannerAttempts
    /\ plannerCalls' = plannerCalls + 1
    /\ Raise("planner: model gateway error")
    /\ UNCHANGED <<runVars, execVars, loopVars, plan, verification, rounds,
                   response, verifierCalls, lastReply, execBatches, verifyCalls,
                   lastCall, toolTrace>>

(***************************************************************************)
(* ExecutorAgent.                                                          *)
(***************************************************************************)
\* ExecutionState(task=task, plan=plan)
NewExecutionState(t, p) ==
    [task |-> t, plan |-> p, results |-> <<>>, step_status |-> <<>>, logs |-> <<>>]

\* executor.run(task, plan): a fresh ExecutionState, then _run_steps(plan.steps).
ExecutorRun ==
    /\ pc = "planned"
    /\ state' = NewExecutionState(task, plan)
    /\ batch' = plan.steps
    /\ stepIdx' = 1
    /\ execBatches' = execBatches + 1
    /\ pc' = "run"
    /\ CallHistoryGone
    /\ UNCHANGED <<runVars, loopVars, plan, verification, rounds, response,
                   failure, verifyCalls>>

\* Mutant: a dependency with no status yet passes the gate.
_deps_ok_missing_passes(step, st) ==
    \A dep \in step.depends_on : Get(st.step_status, dep) \in {"ok", None}

_deps_ok(step, st) ==
    \A dep \in step.depends_on : Get(st.step_status, dep) = "ok"

\* Mutant: the gate looks a dependency up with setdefault.
AfterDepsOkSetDefault(step, st) ==
    [st EXCEPT !.step_status =
        [dep \in (DOMAIN @) \cup step.depends_on |-> Get(@, dep)]]

\* The Execution State once _deps_ok has returned: dict.get reads and writes
\* nothing.
AfterDepsOk(step, st) == st

\* Mutant: the except branch keeps no message.
ToolCallResultNoMessage(step, o) ==
    IF o.raised THEN ToolResult(FALSE, step.tool_name, None) ELSE o.result

\* try: tool_res = tool.call(step.tool_args)
\* except Exception as e: tool_res = ToolResult(ok=False, ..., error=str(e)).
ToolCallResult(step, o) ==
    IF o.raised THEN ToolResult(FALSE, step.tool_name, o.message) ELSE o.result

\* What one iteration of _run_steps leaves in the state: on the skip path,
\* on the compose path and after tool.call.
SkippedState(step, st) ==
    [AfterDepsOk(step, st) EXCEPT
        !.step_status = Put(@, step.id, "skipped"),
        !.logs = Append(@, Log(step.id, "skipped", "failed dependency"))]

ComposedState(step, st, text) ==
    [AfterDepsOk(step, st) EXCEPT
        !.step_status = Put(@, step.id, "ok"),
        !.results = Put(@, step.output_key, TextResult(text)),
        !.logs = Append(@, Log(step.id, "composed", step.output_key))]

\* Mutant: the status is set and the result is not stored.
ToolStateNoResult(step, st, tool_res) ==
    [AfterDepsOk(step, st) EXCEPT
        !.step_status = Put(@, step.id, IF tool_res.ok THEN "ok" ELSE "failed"),
        !.logs = Append(@, Log(step.id, "calling", step.tool_name))]

ToolState(step, st, tool_res) ==
    [AfterDepsOk(step, st) EXCEPT
        !.results = Put(@, step.output_key, tool_res),
        !.step_status = Put(@, step.id, IF tool_res.ok THEN "ok" ELSE "failed"),
        !.logs = @ \o <<Log(step.id, "calling", step.tool_name),
                        IF tool_res.ok
                        THEN Log(step.id, "ok", step.output_key)
                        ELSE Log(step.id, "failed", tool_res.error)>>]

\* What one iteration of _run_steps does to the state, given what the call it
\* makes (if it makes one) answers.
RunStep(step, st, reply) ==
    IF ~_deps_ok(step, st) THEN SkippedState(step, st)
    ELSE IF step.tool_name = None THEN ComposedState(step, st, reply.text)
    ELSE ToolState(step, st, ToolCallResult(step, reply.outcome))

InBatch == pc \in {"run", "fix"} /\ stepIdx \in 1..Len(batch)

StepFrame ==
    UNCHANGED <<runVars, loopVars, plan, verification, rounds, response,
                histVars, batch>>

\* A step with a dependency that is not ok.
StepSkipped ==
    /\ InBatch
    /\ LET step == batch[stepIdx] IN
       /\ ~_deps_ok(step, state)
       /\ state' = SkippedState(step, state)
    /\ lastCall' = "none"
    /\ toolTrace' = NoTrace
    /\ stepIdx' = stepIdx + 1
    /\ UNCHANGED <<pc, failure>>
    /\ StepFrame

\* _compose_text without a model: the step's action.
ComposeFallback(step) == step.action

\* A step with no tool: _compose_text asks the model, or falls back to the
\* step's action when the Executor has none, and the text is stored.
StepComposed ==
    /\ InBatch
    /\ LET step == batch[stepIdx] IN
       /\ _deps_ok(step, state)
       /\ step.tool_name = None
       /\ \E text \in IF llm = None THEN {ComposeFallback(step)} ELSE ComposedTexts :
            state' = ComposedState(step, state, text)
    /\ lastCall' = IF llm = None THEN "none" ELSE "model returned"
    /\ toolTrace' = NoTrace
    /\ stepIdx' = stepIdx + 1
    /\ UNCHANGED <<pc, failure>>
    /\ StepFrame

\* llm.chat raises inside _compose_text: nothing catches it.
StepComposeRaises ==
    /\ InBatch
    /\ LET step == batch[stepIdx] IN
       /\ _deps_ok(step, state)
       /\ step.tool_name = None
       /\ state' = AfterDepsOk(step, state)
    /\ llm /= None
    /\ lastCall' = "model raised"
    /\ toolTrace' = NoTrace
    /\ Raise("executor: model gateway error")
    /\ UNCHANGED stepIdx
    /\ StepFrame

\* A step with a tool: get_tool, then tool.call inside the try.
\* Outcomes[tool] is what tool.call can do.
StepToolCall(Outcomes) ==
    /\ InBatch
    /\ LET step == batch[stepIdx] IN
       /\ _deps_ok(step, state)
       /\ step.tool_name /= None
       /\ IF step.tool_name \notin registry
          THEN /\ Raise("KeyError: Unknown tool")
               /\ state' = AfterDepsOk(step, state)
               /\ lastCall' = "lookup raised"
               /\ toolTrace' = NoTrace
               /\ UNCHANGED stepIdx
          ELSE /\ \E o \in Outcomes[step.tool_name] :
                    LET tool_res == ToolCallResult(step, o) IN
                    /\ lastCall' = IF o.raised THEN "tool raised" ELSE "tool returned"
                    /\ toolTrace' = TraceOf(o)
                    /\ state' = ToolState(step, state, tool_res)
               /\ stepIdx' = stepIdx + 1
               /\ UNCHANGED <<pc, failure>>
    /\ StepFrame

\* Mutant: the counter starts at 0.
RoundsAfterVerifyFromZero(at, r) == IF at = "verify" THEN 0 ELSE r + 1

\* rounds = 1 after the first verify; rounds += 1 after a verify of the loop.
RoundsAfterVerify(at, r) == IF at = "verify" THEN 1 ELSE r + 1

\* Mutants: the budget test is off by one; the status is not looked at.
LoopConditionInclusive(v, r, budget) ==
    v.status = "needs_fix" /\ v.fix_steps /= <<>> /\ r <= budget
LoopConditionAnyStatus(v, r, budget) ==
    v.fix_steps /= <<>> /\ r < budget

\* The while condition; a list is true when it is not empty.
LoopCondition(v, r, budget) ==
    v.status = "needs_fix" /\ v.fix_steps /= <<>> /\ r < budget

(***************************************************************************)
(* VerifierAgent.verify.                                                   *)
(***************************************************************************)
\* Mutant: the step loop is left before its last step.
BatchDoneEarly(steps, idx) == idx >= Len(steps)

\* for step in steps: the loop is through when no step is left.
BatchDone(steps, idx) == idx > Len(steps)

\* _run_steps is through the batch: the Executor returns and run_task calls
\* verifier.verify(task, plan, state.results).
VerifyStart ==
    /\ pc \in {"run", "fix"}
    /\ BatchDone(batch, stepIdx)
    /\ pc' = IF pc = "run" THEN "verify" ELSE "reverify"
    /\ messages' = <<SystemMsg("verifier"),
                     VerifierUserMsg(task, plan, state.results)>>
    /\ last_err' = None
    /\ last_text' = NoReply
    /\ attempt' = 0
    /\ batch' = <<>>
    /\ stepIdx' = 0
    /\ verifyCalls' = verifyCalls + 1
    /\ UNCHANGED <<runVars, plan, state, verification, rounds, response,
                   failure, plannerCalls, verifierCalls, lastReply, execBatches,
                   lastCall, toolTrace>>

VerifierRepair(err, reply) ==
    /\ last_err' = err
    /\ messages' = <<SystemMsg("verifier"), RepairMsg(err, reply)>>
    /\ attempt' = attempt + 1

\* One iteration of verify()'s loop; on success run_task's next statement
\* (rounds = 1 after the first verify, rounds += 1 in the loop) follows.
VerifierReply(Replies) ==
    /\ pc \in {"verify", "reverify"}
    /\ attempt < VerifierAttempts
    /\ \E reply \in Replies :
         LET err == VerifierReplyError(reply) IN
         /\ verifierCalls' = verifierCalls + 1
         /\ lastReply' = reply
         /\ IF err = "ok"
            THEN /\ verification' = reply.doc
                 /\ rounds' = RoundsAfterVerify(pc, rounds)
                 /\ pc' = "loop"
                 /\ LoopLocalsGone
                 /\ UNCHANGED failure
            ELSE /\ last_text' = reply
                 /\ VerifierRepair(err, reply)
                 /\ UNCHANGED <<verification, rounds>>
                 /\ IF attempt + 1 < VerifierAttempts
                    THEN UNCHANGED <<pc, failure>>
                    ELSE Raise("VerifierAgent failed to produce valid verification JSON")
    /\ UNCHANGED <<runVars, execVars, plan, response, plannerCalls,
                   execBatches, verifyCalls, lastCall, toolTrace>>

VerifierChatRaises ==
    /\ pc \in {"verify", "reverify"}
    /\ attempt < VerifierAttempts
    /\ verifierCalls' = verifierCalls + 1
    /\ Raise("verifier: model gateway error")
    /\ UNCHANGED <<runVars, execVars, loopVars, plan, verification, rounds,
                   response, plannerCalls, lastReply, execBatches, verifyCalls,
                   lastCall, toolTrace>>

(***************************************************************************)
(* run_task's round loop.                                                  *)
(***************************************************************************)
\* run_fix_steps builds a PlanStep from every fix step: "ok", or the error of
\* the first one PlanStep rejects.
PseudoStepsError(fix_steps) ==
    IF \E i \in 1..Len(fix_steps) : PlanStepError(fix_steps[i]) /= "ok"
    THEN "ValidationError: PlanStep"
    ELSE "ok"

\* The loop body starts: run_fix_steps(state, verification.fix_steps).
LoopRetry ==
    /\ pc = "loop"
    /\ LoopCondition(verification, rounds, max_rounds)
    /\ PseudoStepsError(verification.fix_steps) = "ok"
    /\ batch' = verification.fix_steps
    /\ stepIdx' = 1
    /\ execBatches' = execBatches + 1
    /\ pc' = "fix"
    /\ CallHistoryGone
    /\ UNCHANGED <<runVars, loopVars, plan, state, verification, rounds,
                   response, failure, verifyCalls>>

\* run_fix_steps raises while it builds the pseudo steps.
LoopRetryRaises ==
    /\ pc = "loop"
    /\ LoopCondition(verification, rounds, max_rounds)
    /\ PseudoStepsError(verification.fix_steps) /= "ok"
    /\ execBatches' = execBatches + 1
    /\ Raise(PseudoStepsError(verification.fix_steps))
    /\ CallHistoryGone
    /\ UNCHANGED <<runVars, execVars, loopVars, plan, verification, rounds,
                   response, verifyCalls>>

\* Mutant: a best-effort answer is put in place of an incomplete verification.
RunResponseBestEffort(t, p, st, v) ==
    [task |-> t, plan |-> p, results |-> st.results,
     verification |-> [v EXCEPT !.status = "complete"],
     final_output |-> "{summary}", logs |-> st.logs]

\* RunResponse(task=..., plan=..., results=..., verification=...,
\* final_output=verification.final_output, logs=...).
RunResponse(t, p, st, v) ==
    [task |-> t, plan |-> p, results |-> st.results, verification |-> v,
     final_output |-> v.final_output, logs |-> st.logs]

\* The loop is left: run_task returns the RunResponse.
LoopExit ==
    /\ pc = "loop"
    /\ ~LoopCondition(verification, rounds, max_rounds)
    /\ response' = RunResponse(task, plan, state, verification)
    /\ pc' = "done"
    /\ CallHistoryGone
    /\ UNCHANGED <<runVars, execVars, loopVars, plan, verification, rounds,
                   failure, execBatches, verifyCalls>>

(***************************************************************************)
(* The /run handler around run_task.                                       *)
(***************************************************************************)
\* The exceptions of run_task that are RuntimeErrors: the failures of plan()
\* and verify(), and what GroqClient.chat raises (RetryableError is one).
RuntimeErrors ==
    { "PlannerAgent failed to produce valid plan",
      "VerifierAgent failed to produce valid verification JSON",
      "planner: model gateway error", "verifier: model gateway error",
      "executor: model gateway error" }

\* Mutant: the handler answers a failure with an empty success.
ErrorStatusOk(what) == 200

\* except RuntimeError: 400; except Exception: 500.
ErrorStatus(what) == IF what \in RuntimeErrors THEN 400 ELSE 500

taskVars ==
    <<pc, task, max_rounds, llm, registry, plan, state, verification, rounds,
      loopVars, batch, stepIdx, response, failure, histVars, lastCall,
      toolTrace>>
handlerVars == <<taskVars, chat, runs, heap, parse>>

\* return run_task(...): the RunResponse is the body of the answer.
RunReturns ==
    /\ pc = "done"
    /\ http = NoAnswer
    /\ http' = [status_code |-> 200, body |-> response]
    /\ UNCHANGED handlerVars

\* run_task raised: the handler raises an HTTPException with str(e).
RunRaisesHTTPException ==
    /\ pc = "raised"
    /\ http = NoAnswer
    /\ http' = [status_code |-> ErrorStatus(failure), detail |-> failure]
    /\ UNCHANGED handlerVars

Next ==
    \/ PlannerReply(PlannerReplies)
    \/ PlannerChatRaises
    \/ ExecutorRun
    \/ StepSkipped
    \/ StepComposed
    \/ StepComposeRaises
    \/ StepToolCall(OutcomesByTool)
    \/ VerifyStart
    \/ VerifierReply(VerifierReplies)
    \/ VerifierChatRaises
    \/ LoopRetry
    \/ LoopRetryRaises
    \/ LoopExit
    \/ RunReturns
    \/ RunRaisesHTTPException

Spec == Init /\ [][Next]_vars

ExecInit == InitOf(ExecRoundBudgets, Composers, Registries)

ExecNext ==
    \/ PlannerReply(ExecPlannerReplies)
    \/ PlannerChatRaises
    \/ ExecutorRun
    \/ StepSkipped
    \/ StepComposed
    \/ StepComposeRaises
    \/ StepToolCall(OutcomesByTool)
    \/ VerifyStart
    \/ VerifierReply(ExecVerifierReplies)
    \/ VerifierChatRaises
    \/ LoopRetry
    \/ LoopRetryRaises
    \/ LoopExit
    \/ RunReturns
    \/ RunRaisesHTTPException

ExecSpec == ExecInit /\ [][ExecNext]_vars

ToolInit == InitOf(ToolRoundBudgets, {"GroqClient"}, {ToolRegistry})

ToolNext ==
    \/ PlannerReply(ExecPlannerReplies)
    \/ PlannerChatRaises
    \/ ExecutorRun
    \/ StepSkipped
    \/ StepComposed
    \/ StepComposeRaises
    \/ StepToolCall(ToolCalls)
    \/ VerifyStart
    \/ VerifierReply(ToolVerifierReplies)
    \/ VerifierChatRaises
    \/ LoopRetry
    \/ LoopRetryRaises
    \/ LoopExit
    \/ RunReturns
    \/ RunRaisesHTTPException

ToolSpec == ToolInit /\ [][ToolNext]_vars

(***************************************************************************)
(* GroqClient.chat, decorated with with_retry(attempts=4): tenacity runs   *)
(* the body again while it raises a RetryableError and the attempts are    *)
(* not used up, and re-raises the last exception when they are.            *)
(***************************************************************************)
ChatInit == Init

\* An agent calls llm.chat(messages, ...).
ChatCall ==
    /\ chat.status /= "pending"
    /\ chat' = [status |-> "pending", seen |-> <<>>, content |-> None,
                error |-> None]
    /\ UNCHANGED <<taskVars, http, runs, heap, parse>>

\* One run of chat's body: the request and what the body makes of the answer.
ChatAttempt ==
    /\ chat.status = "pending"
    /\ \E r \in GroqAnswers :
         LET seen == Append(chat.seen, r)
             out == ChatBody(r)
         IN chat' =
              IF out.raised /\ ShouldRetry(out.error, Len(seen), ChatAttempts)
              THEN [chat EXCEPT !.seen = seen]
              ELSE IF out.raised
                   THEN [status |-> "raised", seen |-> seen, content |-> None,
                         error |-> out.error]
                   ELSE [status |-> "returned", seen |-> seen,
                         content |-> out.content, error |-> None]
    /\ UNCHANGED <<taskVars, http, runs, heap, parse>>

ChatNext == ChatCall \/ ChatAttempt

ChatSpec == ChatInit /\ [][ChatNext]_vars

(***************************************************************************)
(* Two /run requests served at once.  run_task's locals (the agents it     *)
(* builds, plan, state, verification, rounds) belong to the invocation;    *)
(* the ExecutionState is an object executor.run creates; _TOOL_REGISTRY    *)
(* and the tool objects in it are module-level and shared, and only read.  *)
(* plan() and verify() are one step each here: they work on their own      *)
(* locals and their llm only.                                              *)
(***************************************************************************)
Invocations == {"A", "B"}

ConcTask == [i \in Invocations |-> IF i = "A" THEN "weather in Paris"
                                              ELSE "weather in Oslo"]

MaxConcRounds == 2
ConcRoundBudgets == MinRounds..MaxConcRounds

ConcPlanDocs ==
    { [objective |-> "report weather", steps |-> st] : st \in
        { <<WeatherStep({}), FinalStep(2, {1})>>, <<FinalStep(1, {})>> } }

ConcVerificationDocs ==
    { [status |-> "complete", fix_steps |-> <<>>, final_output |-> "{summary}"],
      [status |-> "needs_fix", fix_steps |-> RetryWeather, final_output |-> "{}"] }

\* What the call of a step can answer: the composer's text, tool.call's outcome.
ConcReplies(step) ==
    IF step.tool_name = None
    THEN {[text |-> t] : t \in ComposedTexts}
    ELSE {[outcome |-> o] : o \in ToolOutcomes(step.tool_name)}

NoPrompt == [role |-> "none"]

\* run_task(task, max_rounds) is entered.  solo is the ExecutionState of a run
\* that is alone in the process and is given the same answers.
NewRun(t, b) ==
    [pc |-> "plan", task |-> t, max_rounds |-> b, plan |-> NoPlan,
     state |-> None, verification |-> NoVerification, rounds |-> 0,
     batch |-> <<>>, stepIdx |-> 0, prompt |-> NoPrompt,
     response |-> NoResponse, solo |-> NoState]

\* Mutant: the Executor keeps one ExecutionState for all its callers.
NewStateShared(i) == "A"

\* The object ExecutionState(...) creates in executor.run: a new one for each
\* call, named here after the invocation that made the call.
NewState(i) == i

ConcInit ==
    /\ RequestInit({MinRounds}, {"GroqClient"}, {ToolRegistry})
    /\ runs \in [Invocations -> {NewRun(t, b) : t \in {ConcTask[i] : i \in Invocations},
                                               b \in ConcRoundBudgets}]
    /\ \A i \in Invocations : runs[i].task = ConcTask[i]
    /\ heap = [a \in Invocations |-> NoState]
    /\ parse = NoParse

ConcFrame == UNCHANGED <<taskVars, http, chat, parse>>

\* plan = planner.plan(task)
ConcPlannerReturns(i) ==
    /\ runs[i].pc = "plan"
    /\ \E d \in ConcPlanDocs :
         runs' = [runs EXCEPT ![i].plan = d, ![i].pc = "planned"]
    /\ UNCHANGED heap
    /\ ConcFrame

\* state = executor.run(task, plan), up to the first step.
ConcExecutorRun(i) ==
    /\ runs[i].pc = "planned"
    /\ LET f == runs[i]
           fresh == NewExecutionState(f.task, f.plan)
       IN /\ heap' = [heap EXCEPT ![NewState(i)] = fresh]
          /\ runs' = [runs EXCEPT ![i] =
                [f EXCEPT !.state = NewState(i), !.batch = f.plan.steps,
                          !.stepIdx = 1, !.pc = "run", !.solo = fresh]]
    /\ ConcFrame

\* One iteration of _run_steps on the invocation's state object.
ConcStep(i) ==
    /\ runs[i].pc \in {"run", "fix"}
    /\ runs[i].stepIdx \in 1..Len(runs[i].batch)
    /\ LET f == runs[i]
           step == f.batch[f.stepIdx]
       IN /\ step.tool_name = None \/ step.tool_name \in registry
          /\ \E reply \in ConcReplies(step) :
               /\ heap' = [heap EXCEPT ![f.state] = RunStep(step, @, reply)]
               /\ runs' = [runs EXCEPT ![i] =
                     [f EXCEPT !.stepIdx = f.stepIdx + 1,
                               !.solo = RunStep(step, f.solo, reply)]]
    /\ ConcFrame

\* verification = verifier.verify(task, plan, state.results), and the rounds
\* statement after it.
ConcVerifierReturns(i) ==
    /\ runs[i].pc \in {"run", "fix"}
    /\ BatchDone(runs[i].batch, runs[i].stepIdx)
    /\ LET f == runs[i] IN
       \E v \in ConcVerificationDocs :
         runs' = [runs EXCEPT ![i] =
           [f EXCEPT !.prompt = VerifierUserMsg(f.task, f.plan, heap[f.state].results),
                     !.verification = v,
                     !.rounds = RoundsAfterVerify(
                                   IF f.pc = "run" THEN "verify" ELSE "reverify", @),
                     !.batch = <<>>, !.stepIdx = 0, !.pc = "loop"]]
    /\ UNCHANGED heap
    /\ ConcFrame

\* plan() or verify() raises: the invocation ends.
ConcAgentRaises(i) ==
    /\ \/ runs[i].pc = "plan"
       \/ runs[i].pc \in {"run", "fix"} /\ BatchDone(runs[i].batch, runs[i].stepIdx)
    /\ runs' = [runs EXCEPT ![i].pc = "raised"]
    /\ UNCHANGED heap
    /\ ConcFrame

\* The loop body starts: state = executor.run_fix_steps(state, fix_steps).
ConcLoopRetry(i) ==
    /\ runs[i].pc = "loop"
    /\ LET f == runs[i] IN
       /\ LoopCondition(f.verification, f.rounds, f.max_rounds)
       /\ runs' = [runs EXCEPT ![i] =
             IF PseudoStepsError(f.verification.fix_steps) = "ok"
             THEN [f EXCEPT !.batch = f.verification.fix_steps, !.stepIdx = 1,
                            !.pc = "fix"]
             ELSE [f EXCEPT !.pc = "raised"]]
    /\ UNCHANGED heap
    /\ ConcFrame

\* The loop is left: the RunResponse is built from the invocation's locals.
ConcLoopExit(i) ==
    /\ runs[i].pc = "loop"
    /\ LET f == runs[i] IN
       /\ ~LoopCondition(f.verification, f.rounds, f.max_rounds)
       /\ runs' = [runs EXCEPT ![i] =
             [f EXCEPT !.response = RunResponse(f.task, f.plan, heap[f.state],
                                                f.verification),
                       !.pc = "done"]]
    /\ UNCHANGED heap
    /\ ConcFrame

ConcNext ==
    \E i \in Invocations :
        \/ ConcPlannerReturns(i)
        \/ ConcExecutorRun(i)
        \/ ConcStep(i)
        \/ ConcVerifierReturns(i)
        \/ ConcAgentRaises(i)
        \/ ConcLoopRetry(i)
        \/ ConcLoopExit(i)

ConcSpec == ConcInit /\ [][ConcNext]_vars

(***************************************************************************)
(* One iteration of plan()'s loop from the reply on: safe_json_loads, then *)
(* model_validate or the except branch.                                    *)
(***************************************************************************)
ParseInit ==
    /\ RequestInit({MinRounds}, {"GroqClient"}, {ToolRegistry})
    /\ runs = <<>>
    /\ heap = <<>>
    /\ \E text \in Texts : parse = [NoParse EXCEPT !.text = text, !.status = "called"]

ParseFrame == UNCHANGED <<taskVars, http, chat, runs, heap>>

\* data = safe_json_loads(resp.content)
SafeJsonLoads ==
    /\ parse.status = "called"
    /\ LET out == safe_json_loads(parse.text) IN
       parse' = [parse EXCEPT
                    !.status = IF out.raised THEN "raised" ELSE "returned",
                    !.value = out.value,
                    !.error = out.error]
    /\ ParseFrame

\* The try block goes on to model_validate(data), or except Exception takes
\* str(e) into the repair turn.
ParseTryExcept ==
    /\ parse.status \in {"raised", "returned"}
    /\ parse.then = "none"
    /\ parse' = [parse EXCEPT
                    !.then = IF parse.status = "raised" THEN "repair turn"
                             ELSE "model_validate"]
    /\ ParseFrame

ParseNext == SafeJsonLoads \/ ParseTryExcept

ParseSpec == ParseInit /\ [][ParseNext]_vars

\* The program keeps running: every call returns or raises (each HTTP call has
\* a timeout), and run_task is one sequential thread.
FairSpec == Spec /\ WF_vars(Next)

(***************************************************************************)
(* The properties.                                                         *)
(***************************************************************************)
Ended == pc \in {"done", "raised"}

\* The schemas, stated as conditions on a document.
StepWellFormed(s) ==
    /\ s.id >= 1
    /\ s.action /= ""
    /\ s.tool_name \in ToolNames \cup {None}
    /\ s.output_key /= ""
    /\ s.id \notin s.depends_on

TerminalStepFinal(steps) ==
    /\ Len(steps) >= 1
    /\ steps[Len(steps)].tool_name = None
    /\ steps[Len(steps)].output_key = "final"

PlanWellFormed(d) ==
    /\ d.objective /= ""
    /\ \A i \in 1..Len(d.steps) : StepWellFormed(d.steps[i])
    /\ \A i, j \in 1..Len(d.steps) : i /= j => d.steps[i].id /= d.steps[j].id
    /\ TerminalStepFinal(d.steps)

VerificationWellFormed(d) ==
    /\ d.status \in {"complete", "needs_fix"}
    /\ \A i \in 1..Len(d.fix_steps) :
          d.fix_steps[i].id >= 1000 /\ d.fix_steps[i].tool_name \in ToolNames

ValidPlannerReply(r) == r.fmt = "json" /\ PlanWellFormed(r.doc)
ValidVerifierReply(r) == r.fmt = "json" /\ VerificationWellFormed(r.doc)

InPlan == pc = "plan"
InVerify == pc \in {"verify", "reverify"}

C2_RetryIffNeedsFixWithinBudget ==
    [][ LET retry == execBatches' = execBatches + 1 IN
        /\ pc = "loop" =>
             /\ retry <=> /\ verification.status = "needs_fix"
                          /\ Len(verification.fix_steps) > 0
                          /\ rounds < max_rounds
             /\ pc' = "fix" => retry /\ batch' = verification.fix_steps
             /\ verification.status = "complete" => ~retry /\ pc' = "done"
        /\ execBatches' /= execBatches => pc \in {"planned", "loop"}
      ]_vars

\* The run ended on a complete verification that carried fix steps, with
\* budget left and after an earlier retry.
C2_Witness ==
    /\ pc = "done"
    /\ verification.status = "complete"
    /\ verification.fix_steps /= <<>>
    /\ rounds < max_rounds
    /\ execBatches >= 2

\* C3: when the loop stops on a needs_fix verification (no fix steps, or the
\* budget is used up), its fix steps are not executed, and the response holds
\* the verification and the final_output of the last verify call, the status
\* still needs_fix.
C3_ForcedCompleteReturnsLastVerification ==
    [][ ( /\ pc = "loop"
          /\ lastReply.doc.status = "needs_fix"
          /\ (lastReply.doc.fix_steps = <<>> \/ rounds >= max_rounds) )
        => /\ pc' = "done"
           /\ execBatches' = execBatches
           /\ state' = state
           /\ response'.verification = lastReply.doc
           /\ response'.verification.status = "needs_fix"
           /\ response'.final_output = lastReply.doc.final_output
           /\ response'.results = state.results
      ]_vars

\* The budget ran out on a verification that proposed fix steps.
C3_Witness ==
    /\ pc = "done"
    /\ response.verification.status = "needs_fix"
    /\ response.verification.fix_steps /= <<>>
    /\ rounds = max_rounds
    /\ execBatches = max_rounds

\* C4: at every evaluation of the loop condition and at return, rounds equals
\* the number of Executor batches and the number of verify calls; it is 1
\* after the first pass.
C4_RoundsCountsBatches ==
    /\ pc \in {"loop", "done"} =>
         /\ rounds = execBatches
         /\ rounds = verifyCalls
         /\ rounds >= 1
    /\ InVerify \/ pc \in {"run", "fix"} => verifyCalls \in {execBatches - 1, execBatches}

\* The loop condition is evaluated after two fix batches.
C4_Witness == pc = "loop" /\ rounds = 3 /\ execBatches = 3

\* C5: plan() and verify() make at most 3 model calls; they end with a value
\* that satisfies the schema or with one failure, and the third invalid reply
\* is followed by no call.
C5_RepairLoopBounded ==
    /\ plannerCalls <= 3
    /\ verifierCalls <= 3
    /\ attempt <= 3
    /\ pc = "planned" => PlanWellFormed(plan)
    /\ pc = "loop" => VerificationWellFormed(verification)
    /\ attempt = 3 => /\ pc = "raised"
                      /\ failure \in {"PlannerAgent failed to produce valid plan",
                                      "VerifierAgent failed to produce valid verification JSON"}
                      /\ ~ENABLED PlannerReply(PlannerReplies)
                      /\ ~ENABLED VerifierReply(VerifierReplies)
                      /\ ~ENABLED PlannerChatRaises
                      /\ ~ENABLED VerifierChatRaises

\* verify() gave up after three invalid replies.
C5_Witness ==
    /\ pc = "raised"
    /\ verifierCalls = 3
    /\ attempt = 3
    /\ ~ValidVerifierReply(lastReply)

PlannerStage == pc \in {"plan", "planned"} \/ (pc = "raised" /\ execBatches = 0)
VerifierStage == pc \in {"verify", "reverify", "loop"}
                 \/ (pc = "raised" /\ verifyCalls >= 1 /\ verifyCalls = execBatches)

\* C6: the first reply that parses and validates ends the call: plan() and
\* verify() return the value built from it, raise nothing, and no further
\* model call is made; the calls made are the invalid replies before it plus
\* one (2 calls for an invalid first reply and a valid second).
C6_FirstValidReplyReturns ==
    /\ []( (PlannerStage /\ ValidPlannerReply(lastReply)) =>
              /\ pc = "planned"
              /\ plan = lastReply.doc
              /\ failure = None
              /\ plannerCalls \in 1..3 )
    /\ []( (VerifierStage /\ ValidVerifierReply(lastReply)) =>
              /\ pc = "loop"
              /\ verification = lastReply.doc
              /\ failure = None
              /\ verifierCalls \in 1..3 )
    /\ [](InPlan => plannerCalls = attempt)
    /\ [](InVerify => verifierCalls = attempt)
    /\ [][ /\ plannerCalls' > plannerCalls =>
                /\ plannerCalls' = plannerCalls + 1
                /\ ~ValidPlannerReply(lastReply)
                /\ ValidPlannerReply(lastReply') => plannerCalls' = attempt + 1
           /\ verifierCalls' > verifierCalls =>
                /\ verifierCalls' = verifierCalls + 1
                /\ ~ValidVerifierReply(lastReply)
                /\ ValidVerifierReply(lastReply') => verifierCalls' = attempt + 1
         ]_vars

\* plan() returned the plan of its second reply.
C6_Witness ==
    /\ pc = "planned"
    /\ plannerCalls = 2
    /\ ValidPlannerReply(lastReply)
    /\ plan = lastReply.doc
    /\ failure = None

\* What a call after a failed attempt sends: the system instruction of the
\* stage and one repair request with the error and the text of the reply
\* before it, and nothing else.
RepairExchange(m, stage, err, reply) ==
    /\ Len(m) = 2
    /\ m[1] = SystemMsg(stage)
    /\ m[2].role = "user"
    /\ m[2].kind = "repair"
    /\ m[2].error = err
    /\ err \notin {"ok", None}
    /\ m[2].previous = reply

\* C7: after a failed attempt, the conversation the next model call carries is
\* exactly the system instruction and one repair request holding the error
\* text and the raw text of the reply just before; neither the first user turn
\* nor an earlier repair turn is in it.
C7_RepairTurnIsFreshExchange ==
    /\ (InPlan /\ attempt >= 1) =>
          /\ RepairExchange(messages, "planner", PlannerReplyError(lastReply), lastReply)
          /\ last_text = lastReply
          /\ last_err = messages[2].error
    /\ (InVerify /\ attempt >= 1) =>
          /\ RepairExchange(messages, "verifier", VerifierReplyError(lastReply), lastReply)
          /\ last_text = lastReply
          /\ last_err = messages[2].error

\* verify() is about to make its third call, after two failed attempts.
C7_Witness ==
    /\ InVerify
    /\ attempt = 2
    /\ verifierCalls = 2
    /\ messages[2].previous = lastReply

\* C8: whatever the Executor runs is a Plan that is not empty and ends with a
\* step with no tool and output key "final"; a planner reply that breaks this
\* is rejected (a repair turn follows, or plan() ends run_task with a failure)
\* and until a plan is accepted there is no Execution State and no batch.
C8_ExecutorRunsOnlyTerminatedPlans ==
    /\ ~PlannerStage \/ pc = "planned" => TerminalStepFinal(plan.steps)
    /\ (state /= NoState \/ batch /= <<>> \/ execBatches >= 1) =>
          /\ TerminalStepFinal(plan.steps)
          /\ state.plan = plan
    /\ PlannerStage => state = NoState /\ batch = <<>> /\ execBatches = 0
    /\ ( /\ PlannerStage
         /\ lastReply.fmt = "json"
         /\ ~TerminalStepFinal(lastReply.doc.steps) ) =>
          /\ pc \in {"plan", "raised"}
          /\ plan = NoPlan
          /\ pc = "plan" => messages[2].kind = "repair"
          /\ pc = "raised" =>
                \/ attempt = 3 /\ failure = "PlannerAgent failed to produce valid plan"
                \/ attempt < 3 /\ failure = "planner: model gateway error"

\* A plan whose last step calls a tool was rejected; the repair turn is next.
C8_Witness ==
    /\ pc = "plan"
    /\ lastReply.fmt = "json"
    /\ Len(lastReply.doc.steps) >= 1
    /\ lastReply.doc.steps[Len(lastReply.doc.steps)].tool_name /= None
    /\ messages[2].kind = "repair"
    /\ state = NoState

\* C9: the step identifiers of an accepted Plan are pairwise distinct, and no
\* step the Executor processes, plan step or fix step, lists its own
\* identifier in depends_on.
C9_DistinctIdsNoSelfDependency ==
    /\ ~InPlan =>
          /\ \A i, j \in 1..Len(plan.steps) :
                i /= j => plan.steps[i].id /= plan.steps[j].id
          /\ \A i \in 1..Len(plan.steps) :
                plan.steps[i].id \notin plan.steps[i].depends_on
    /\ \A i \in 1..Len(batch) : batch[i].id \notin batch[i].depends_on

\* The Executor is at the first step of a fix batch of a two-step plan.
C9_Witness ==
    /\ pc = "fix"
    /\ stepIdx = 1
    /\ Len(batch) >= 1
    /\ Len(plan.steps) = 2

\* The identifiers that the steps with an identifier in S depend on, and so on.
RECURSIVE DependsOnClosure(_, _)
DependsOnClosure(steps, S) ==
    LET more == S \cup UNION { steps[i].depends_on :
                                 i \in {k \in 1..Len(steps) : steps[k].id \in S} }
    IN IF more = S THEN S ELSE DependsOnClosure(steps, more)

Acyclic(steps) ==
    \A i \in 1..Len(steps) :
        steps[i].id \notin DependsOnClosure(steps, steps[i].depends_on)

\* C10: an accepted Plan has an acyclic dependency relation: no chain of
\* depends_on links leads from a step back to itself.
C10_AcceptedPlanAcyclic == ~InPlan => Acyclic(plan.steps)

\* Every identifier in the step's depends_on has status ok in st.
AllDepsOk(step, st) ==
    \A dep \in step.depends_on :
        dep \in DOMAIN st.step_status /\ st.step_status[dep] = "ok"

StatusOf(st, id) == IF id \in DOMAIN st.step_status THEN st.step_status[id] ELSE "no status"

\* C11: in every batch a step calls its tool or the model only if every
\* identifier in its depends_on has status ok at that moment; otherwise the
\* step is marked skipped, nothing is called for it, the results mapping is
\* left as it was and the batch goes on with the next step.
C11_DependencyGate ==
    [][ InBatch =>
          LET step == batch[stepIdx] IN
          /\ ~AllDepsOk(step, state) =>
                /\ StatusOf(state', step.id) = "skipped"
                /\ lastCall' = "none"
                /\ state'.results = state.results
                /\ stepIdx' = stepIdx + 1
                /\ pc' = pc
          /\ ( \/ lastCall' /= "none"
               \/ state'.results /= state.results
               \/ StatusOf(state', step.id) \in {"ok", "failed"} /\ stepIdx' /= stepIdx )
             => AllDepsOk(step, state)
      ]_vars

\* Both steps of the plan batch were skipped: the first waited for a step with
\* no status yet, the second for the skipped first; nothing was stored.
C11_Witness ==
    /\ pc = "run"
    /\ stepIdx = 3
    /\ StatusOf(state, 1) = "skipped"
    /\ StatusOf(state, 2) = "skipped"
    /\ 1 \in batch[2].depends_on
    /\ state.results = <<>>
    /\ lastCall = "none"

BatchEnded == pc \in {"run", "fix"} /\ stepIdx > Len(batch)

\* C12: at the end of a batch, for any two of its steps A and B where A lists
\* B in depends_on: if B's status is skipped or failed then A's status is
\* skipped.
C12_SkipPropagatesWithinBatch ==
    BatchEnded =>
        \A a, b \in 1..Len(batch) :
            ( /\ batch[b].id \in batch[a].depends_on
              /\ StatusOf(state, batch[b].id) \in {"skipped", "failed"} )
            => StatusOf(state, batch[a].id) = "skipped"

ToolFailed(how, res) == how = "tool raised" \/ (how = "tool returned" /\ ~res.ok)

\* C14: when tool.call returns ok=false or raises, the Executor does not
\* raise: a failed Tool Result (with the exception's message as error when it
\* raised) is stored under the step's output key, the step is marked failed
\* and the loop goes on, so that a later step whose dependencies are ok can
\* still be executed.
C14_ToolFailureIsStepFailure ==
    /\ [][ InBatch =>
            LET step == batch[stepIdx]
                key == step.output_key
            IN ( /\ lastCall' \in {"tool returned", "tool raised"}
                 /\ ToolFailed(lastCall', state'.results[key]) )
               => /\ pc' = pc
                  /\ failure' = None
                  /\ state'.results[key].kind = "tool"
                  /\ state'.results[key].ok = FALSE
                  /\ state'.results[key].tool_name = step.tool_name
                  /\ state'.results[key].error /= None
                  /\ lastCall' = "tool raised" =>
                        state'.results[key].error = "exception text"
                  /\ StatusOf(state', step.id) = "failed"
                  /\ stepIdx' = stepIdx + 1
          ]_vars
    /\ []( ( /\ InBatch
             /\ \E id \in DOMAIN state.step_status : state.step_status[id] = "failed"
             /\ AllDepsOk(batch[stepIdx], state) )
           => ENABLED (StepComposed \/ StepToolCall(OutcomesByTool)) )

\* The weather call raised, its message was stored, and the compose step after
\* it, which does not depend on it, was executed.
C14_Witness ==
    /\ pc = "run"
    /\ stepIdx = 3
    /\ StatusOf(state, 1) = "failed"
    /\ state.results["weather"].error = "exception text"
    /\ StatusOf(state, 2) = "ok"
    /\ batch[2].depends_on = {}
    /\ failure = None

ComposedStepStored ==
    [][ ( /\ InBatch
          /\ batch[stepIdx].tool_name = None
          /\ AllDepsOk(batch[stepIdx], state) )
        => /\ pc' = pc
           /\ failure' = None
           /\ StatusOf(state', batch[stepIdx].id) = "ok"
           /\ batch[stepIdx].output_key \in DOMAIN state'.results
           /\ state'.results[batch[stepIdx].output_key].kind = "text"
           /\ stepIdx' = stepIdx + 1
      ]_vars

\* Without a model the text is the step's action and no model is called.
ComposeFallbackVerbatim ==
    [][ ( /\ InBatch
          /\ batch[stepIdx].tool_name = None
          /\ AllDepsOk(batch[stepIdx], state)
          /\ llm = None )
        => /\ lastCall' = "none"
           /\ StatusOf(state', batch[stepIdx].id) = "ok"
           /\ state'.results[batch[stepIdx].output_key] =
                 TextResult(batch[stepIdx].action)
      ]_vars

\* C16: a step with no tool name whose dependencies are all ok is always
\* marked ok with {text: <composed text>} stored under its output key; with no
\* model configured the text is the step's action, verbatim, and no model call
\* is made.
C16_ComposeStepAlwaysOk == ComposedStepStored /\ ComposeFallbackVerbatim

ErrorIffNotOk(res) == (res.error /= None) <=> (res.ok = FALSE)

\* C17: every Tool Result stored in the Execution State, returned by a tool on
\* any of its provider paths or built by the Executor from an exception, has
\* an error that is not null if and only if its ok flag is false.
C17_ErrorIffNotOk ==
    /\ \A key \in DOMAIN state.results :
          state.results[key].kind = "tool" => ErrorIffNotOk(state.results[key])
    /\ \A key \in DOMAIN response.results :
          response.results[key].kind = "tool" => ErrorIffNotOk(response.results[key])

\* The news result is the failure of the last fallback and the repository
\* search raised, in one plan batch.
C17_Witness ==
    /\ pc = "run"
    /\ stepIdx = 3
    /\ DOMAIN state.results = {"news", "repos"}
    /\ state.results["news"].error = "Google News RSS parse error"
    /\ state.results["repos"].error = "JSONDecodeError"
    /\ lastCall = "tool raised"

IsPrefix(a, b) == Len(a) <= Len(b) /\ SubSeq(b, 1, Len(a)) = a

\* C18: over the batches of one run the Execution State only grows: no key of
\* results and no identifier of step_status is ever lost (entries are added or
\* overwritten) and every earlier log is a prefix of every later one.
C18_StateOnlyGrows ==
    [][ /\ DOMAIN state.results \subseteq DOMAIN state'.results
        /\ DOMAIN state.step_status \subseteq DOMAIN state'.step_status
        /\ IsPrefix(state.logs, state'.logs)
        /\ state /= NoState => state'.task = state.task /\ state'.plan = state.plan
      ]_vars

\* A fix batch has overwritten the failed weather result of the plan batch:
\* the statuses and the log of the plan batch are still there.
C18_Witness ==
    /\ pc = "fix"
    /\ stepIdx = 2
    /\ DOMAIN state.step_status = {1, 2, 1000}
    /\ state.step_status[1] = "failed"
    /\ state.step_status[2] = "skipped"
    /\ state.step_status[1000] = "ok"
    /\ DOMAIN state.results = {"weather"}
    /\ state.results["weather"].ok
    /\ Len(state.logs) = 5

AgentFailures ==
    { "PlannerAgent failed to produce valid plan", "planner: model gateway error",
      "VerifierAgent failed to produce valid verification JSON",
      "verifier: model gateway error" }

\* C19: run_task ends only by returning a response or by a failure raised
\* inside the Planner's or the Verifier's call; neither the plan batch nor a
\* fix batch ends the run with an error.
C19_EndsInResponseOrAgentFailure ==
    /\ pc = "raised" => failure \in AgentFailures /\ response = NoResponse
    /\ pc = "done" => failure = None /\ response /= NoResponse
    /\ pc \in {"run", "fix"} => failure = None

\* C20: at /run a failure of the Planner or the Verifier is always answered
\* with an error (status 400 or 500 and the failure text, no RunResponse), a
\* run that ends on needs_fix is always answered with status 200 and a
\* RunResponse whose verification.status is needs_fix, and every run that ends
\* is answered.
C20_ErrorAnswerDistinctFromNeedsFix ==
    /\ [](http.status_code \in {0, 200, 400, 500})
    /\ [](http.status_code = 200 =>
            /\ pc = "done"
            /\ DOMAIN http = {"status_code", "body"}
            /\ http.body = response
            /\ http.body.verification = verification)
    /\ [](http.status_code \in {400, 500} =>
            /\ pc = "raised"
            /\ DOMAIN http = {"status_code", "detail"}
            /\ http.detail = failure)
    /\ []((pc = "raised" /\ failure \in AgentFailures) => http.status_code /= 200)
    /\ []((pc = "done" /\ verification.status = "needs_fix") =>
            http.status_code \notin {400, 500})
    /\ [](Ended => <>(http /= NoAnswer))

\* The budget ran out on needs_fix with fix steps pending and /run answered
\* 200 with that verification.
C20_Witness ==
    /\ http.status_code = 200
    /\ http.body.verification.status = "needs_fix"
    /\ http.body.verification.fix_steps /= <<>>
    /\ rounds = max_rounds

\* The step before stepIdx called this tool, and toolTrace is that call's.
ToolCalled(tool) ==
    /\ pc \in {"run", "fix"}
    /\ stepIdx >= 2
    /\ lastCall \in {"tool returned", "tool raised"}
    /\ batch[stepIdx - 1].tool_name = tool

\* What the call left under the step's output key.
StoredResult == state.results[batch[stepIdx - 1].output_key]

\* The ordinary failures of a provider.
UpstreamFailures == {"request failed", "http error", "unparsable body"}

\* C22: tool.call of the weather, GitHub and news capability never raises for
\* a network error, a transient status that outlasts the retries, a status
\* that is not a success or a body that does not parse: the call returns, and
\* when it raised, no provider it contacted had failed in one of these ways.
C22_ToolsNeverRaiseForUpstreamFailure ==
    \A tool \in ToolNames :
        (ToolCalled(tool) /\ lastCall = "tool raised") =>
            \A i \in 1..Len(toolTrace.attempts) :
                toolTrace.attempts[i].response \notin UpstreamFailures

\* C23: WeatherTool.call with a city: with a key, OpenWeather is contacted
\* first and, whenever that attempt does not succeed, Open-Meteo next; without a
\* key only Open-Meteo is contacted; the call ends in failure only after every
\* provider of its chain was contacted and failed.
C23_WeatherFallsBackToOpenMeteo ==
    (ToolCalled("weather_current") /\ toolTrace.arg /= "") =>
        LET a == toolTrace.attempts IN
        /\ toolTrace.key /= "" =>
              /\ Len(a) >= 1
              /\ a[1].provider = "OpenWeather"
              /\ a[1].response = "ok" => Len(a) = 1
              /\ a[1].response /= "ok" =>
                    Len(a) = 2 /\ a[2].provider = "Open-Meteo"
        /\ toolTrace.key = "" =>
              Len(a) = 1 /\ a[1].provider = "Open-Meteo"
        /\ ~StoredResult.ok =>
              /\ Len(a) = IF toolTrace.key /= "" THEN 2 ELSE 1
              /\ \A i \in 1..Len(a) : a[i].response /= "ok"

NewsChain(key) ==
    IF key /= "" THEN <<"NewsAPI", "GDELT", "Google News RSS">>
    ELSE <<"GDELT", "Google News RSS">>

\* The answer makes the provider's search a success.
NewsSucceeded(a) ==
    a.response = "ok" \/ (a.response = "unusable body" /\ a.provider /= "NewsAPI")

\* C24: NewsTool.call with a query contacts the providers in the order NewsAPI
\* (only with a key), GDELT, Google News RSS; it stops at the first provider
\* that succeeds and returns that result, and it returns ok=false only after
\* every provider of the chain was contacted and failed.  (It raises, with no
\* provider contacted, when top_n is no number.)
C24_NewsProviderOrder ==
    (ToolCalled("news_search") /\ toolTrace.arg /= "") =>
        LET a == toolTrace.attempts
            chain == NewsChain(toolTrace.key)
        IN /\ Len(a) <= Len(chain)
           /\ \A i \in 1..Len(a) : a[i].provider = chain[i]
           /\ \A i \in 1..(Len(a) - 1) : ~NewsSucceeded(a[i])
           /\ lastCall = "tool raised" => a = <<>> /\ ~StoredResult.ok
           /\ lastCall = "tool returned" =>
                 /\ Len(a) >= 1
                 /\ StoredResult.ok <=> NewsSucceeded(a[Len(a)])
                 /\ ~StoredResult.ok => Len(a) = Len(chain)

\* With a key, NewsAPI and GDELT failed and Google News RSS answered.
C24_Witness ==
    /\ ToolCalled("news_search")
    /\ toolTrace.key /= ""
    /\ Len(toolTrace.attempts) = 3
    /\ toolTrace.attempts[1] = Attempt("NewsAPI", "http error")
    /\ toolTrace.attempts[2] = Attempt("GDELT", "request failed")
    /\ toolTrace.attempts[3] = Attempt("Google News RSS", "ok")
    /\ StoredResult.ok

\* The answers after which chat's body is run again.
RetryableAnswer(r) == r.failed \/ r.status_code \in {429, 500, 502, 503, 504}

SuccessfulAnswer(r) ==
    ~r.failed /\ r.status_code = 200 /\ r.body = "chat completion"

\* C21: GroqClient.chat runs its request again only after a request-layer
\* error or a status 429, 500, 502, 503 or 504, makes at most 4 attempts,
\* returns the reply of the first successful attempt, raises the error of the
\* last attempt once 4 attempts failed in these ways, and raises at once, with
\* no further attempt, on any other status that is not a success.
C21_ChatRetriesTransientOnly ==
    LET seen == chat.seen
        n == Len(seen)
    IN /\ n <= 4
       /\ \A i \in 1..(n - 1) : RetryableAnswer(seen[i])
       /\ chat.status = "pending" =>
             n < 4 /\ \A i \in 1..n : RetryableAnswer(seen[i])
       /\ chat.status = "returned" =>
             SuccessfulAnswer(seen[n]) /\ chat.content = seen[n].body
       /\ chat.status = "raised" =>
             /\ ~SuccessfulAnswer(seen[n])
             /\ RetryableAnswer(seen[n]) =>
                   /\ n = 4
                   /\ chat.error.type = "RetryableError"
                   /\ chat.error.status_code = seen[n].status_code
             /\ ~RetryableAnswer(seen[n]) =>
                   /\ chat.error.type /= "RetryableError"
                   /\ chat.error.status_code = seen[n].status_code

\* Four transient failures in a row: the 503 of the fourth is raised.
C21_Witness ==
    /\ chat.status = "raised"
    /\ Len(chat.seen) = 4
    /\ chat.seen[1].failed
    /\ chat.seen[2].status_code = 429
    /\ chat.seen[3].status_code = 500
    /\ chat.seen[4].status_code = 503
    /\ chat.error = ChatError("RetryableError", "Groq transient error", 503)

FinalStatuses == {"ok", "failed", "skipped"}

PlanIds == {plan.steps[i].id : i \in 1..Len(plan.steps)}

\* C26: a VerificationResult the Verifier returned has a fix list that is not
\* empty only when its status is needs_fix: with status complete the fix list
\* is empty.
C26_FixListOnlyWhenNeedsFix ==
    verification /= NoVerification =>
        (verification.fix_steps /= <<>> => verification.status = "needs_fix")

\* C27: the identifiers of the fix steps (1000 and above) never coincide with
\* an identifier of the Plan, and no step of a fix batch changes the status of
\* a Plan step.
C27_FixStepsLeavePlanStatuses ==
    /\ [](pc = "fix" => \A i \in 1..Len(batch) : batch[i].id \notin PlanIds)
    /\ [][pc = "fix" =>
            \A id \in PlanIds : StatusOf(state', id) = StatusOf(state, id)]_vars

\* C28: run_fix_steps, called with the fix list of a VerificationResult the
\* schema accepted, does not raise: the batch is started, it runs to its end
\* and every fix step then has the status ok, failed or skipped.
C28_FixBatchNeverRaises ==
    /\ [][(pc = "loop" /\ execBatches' = execBatches + 1) => pc' = "fix"]_vars
    /\ [][pc = "fix" => pc' \in {"fix", "reverify"}]_vars
    /\ []((pc = "fix" /\ stepIdx > Len(batch)) =>
            \A i \in 1..Len(batch) :
                StatusOf(state, batch[i].id) \in FinalStatuses)

\* C29: the steps of a batch are processed one at a time in list order, each
\* once: a step of the loop handles the step at the current position, gives it
\* (and no other step) a status of ok, failed or skipped and moves on by one;
\* when the batch is through every step has such a status; verify() starts
\* only when the last step has been handled, and then whatever the statuses.
C29_BatchInOrderThenVerify ==
    /\ [][InBatch =>
            \/ pc' = "raised"
            \/ /\ stepIdx' = stepIdx + 1
               /\ batch' = batch /\ pc' = pc
               /\ StatusOf(state', batch[stepIdx].id) \in FinalStatuses
               /\ \A id \in DOMAIN state'.step_status \ {batch[stepIdx].id} :
                     StatusOf(state', id) = StatusOf(state, id)]_vars
    /\ [](BatchEnded =>
            /\ stepIdx = Len(batch) + 1
            /\ \A i \in 1..Len(batch) :
                  StatusOf(state, batch[i].id) \in FinalStatuses
            /\ ENABLED VerifyStart)
    /\ [][verifyCalls' = verifyCalls + 1 => BatchEnded]_vars

\* The first batch is through with its tool step failed and the step that
\* waited for it skipped, and verify() has started.
C29_Witness ==
    /\ pc = "verify"
    /\ attempt = 0
    /\ verifyCalls = 1
    /\ DOMAIN state.step_status = {1, 2}
    /\ state.step_status[1] = "failed"
    /\ state.step_status[2] = "skipped"

\* C30: once the Plan is accepted, the task and the Plan stay as they are
\* through every batch and every verify() call (the Execution State holds the
\* same Plan, fix steps are not added to it), and every verify() call is
\* given that Plan with the results as they are after the latest batch.
C30_PlanAndTaskFixed ==
    /\ [][pc \notin {"plan"} => (task' = task /\ plan' = plan)]_vars
    /\ [](pc \in {"run", "fix", "verify", "reverify", "loop"} =>
            state.plan = plan /\ state.task = task)
    /\ [][verifyCalls' = verifyCalls + 1 =>
            /\ messages'[2].task = task
            /\ messages'[2].plan = plan
            /\ messages'[2].results = state.results
            /\ state' = state]_vars

\* The second verify() call: a fix step has run and is in the statuses, not in
\* the Plan, and the prompt carries the results the fix batch left.
C30_Witness ==
    /\ pc = "reverify"
    /\ attempt = 0
    /\ verifyCalls = 2
    /\ 1000 \in DOMAIN state.step_status
    /\ 1000 \notin PlanIds
    /\ Len(plan.steps) = 2
    /\ messages[2].plan = plan
    /\ messages[2].results = state.results
    /\ state.results /= <<>>

Allocated(i) == runs[i].state /= None

\* C25: with two run_task invocations in progress in any interleaving, a step
\* of one leaves the other's locals (Plan, round counter) and Execution State
\* as they were, the two never hold the same Execution State, and what each
\* computes equals what a run alone with the same answers computes: the
\* results, step statuses and logs of its state, the results its verify() was
\* given and the RunResponse it returns.
C25_InvocationsIsolated ==
    /\ [][\A j \in Invocations :
            (runs'[j] = runs[j] /\ Allocated(j)) =>
                heap'[runs[j].state] = heap[runs[j].state]]_vars
    /\ [](\A i, j \in Invocations :
            (i /= j /\ Allocated(i) /\ Allocated(j)) => runs[i].state /= runs[j].state)
    /\ [](\A i \in Invocations :
            /\ Allocated(i) =>
                  /\ heap[runs[i].state] = runs[i].solo
                  /\ runs[i].solo.task = ConcTask[i]
                  /\ runs[i].solo.plan = runs[i].plan
            /\ runs[i].pc = "loop" =>
                  runs[i].prompt.results = runs[i].solo.results
            /\ runs[i].pc = "done" =>
                  /\ runs[i].response.task = ConcTask[i]
                  /\ runs[i].response.plan = runs[i].plan
                  /\ runs[i].response.results = runs[i].solo.results
                  /\ runs[i].response.logs = runs[i].solo.logs)

\* Both invocations are in the middle of their first batch, with different
\* results so far.
C25_Witness ==
    /\ \A i \in Invocations : runs[i].pc = "run" /\ runs[i].stepIdx = 2
    /\ DOMAIN heap["A"].results = {"weather"}
    /\ DOMAIN heap["B"].results = {"weather"}
    /\ heap["A"].results["weather"].ok
    /\ ~heap["B"].results["weather"].ok
    /\ heap["A"].task /= heap["B"].task

\* Opening minus closing characters in text[p..q].
RECURSIVE Depth(_, _, _)
Depth(text, p, q) ==
    IF q < p THEN 0
    ELSE Depth(text, p, q - 1)
         + (IF text[q] \in {"{", "["} THEN 1
            ELSE IF text[q] \in {"}", "]"} THEN -1 ELSE 0)

FirstOpening(text) == MinOf({p \in 1..Len(text) : text[p] \in {"{", "["}})

\* The first top-level span: from the first opening character to the closing
\* character that balances it.
HasFirstSpan(text) ==
    /\ \E p \in 1..Len(text) : text[p] \in {"{", "["}
    /\ \E q \in FirstOpening(text)..Len(text) : Depth(text, FirstOpening(text), q) = 0

FirstSpan(text) ==
    LET p == FirstOpening(text)
    IN SubSeq(text, p, MinOf({q \in p..Len(text) : Depth(text, p, q) = 0}))

\* C31: when the whole reply is no JSON document, safe_json_loads parses the
\* first top-level brace- or bracket-delimited span alone: if that span is a
\* document (prose, then a document, then more text, with braces or brackets
\* in it or not), the document is returned; a failure to parse is raised and
\* goes into the repair turn.
C31_FirstSpanParsedAlone ==
    /\ (/\ parse.status \in {"returned", "raised"}
        /\ ~IsJsonDocument(Tokens(parse.text))
        /\ HasFirstSpan(parse.text)
        /\ IsJsonDocument(Tokens(FirstSpan(parse.text)))) =>
            /\ parse.status = "returned"
            /\ parse.value = Tokens(FirstSpan(parse.text))
    /\ (parse.status = "raised" /\ parse.then /= "none") =>
            parse.then = "repair turn"

GatewayErrors == {"planner: model gateway error", "verifier: model gateway error"}

\* C32: when llm.chat raises inside plan() or verify(), the exception leaves
\* the stage and run_task at once: the conversation, the last error and the
\* attempt count stay as they were (no parse failure is recorded, no repair
\* turn is built) and no model call is made afterwards.
C32_GatewayFailureIsFatal ==
    /\ [][(pc \in {"plan", "verify", "reverify"} /\ failure' \in GatewayErrors) =>
            /\ pc' = "raised"
            /\ messages' = messages
            /\ last_err' = last_err
            /\ last_text' = last_text
            /\ attempt' = attempt
            /\ lastReply' = lastReply]_vars
    /\ [][pc = "raised" =>
            /\ plannerCalls' = plannerCalls
            /\ verifierCalls' = verifierCalls
            /\ messages' = messages
            /\ pc' = "raised"]_vars

\* The verifier's second call, made for a repair turn, raised.
C32_Witness ==
    /\ pc = "raised"
    /\ failure = "verifier: model gateway error"
    /\ verifierCalls = 2
    /\ attempt = 1
    /\ messages[2].kind = "repair"

\* C33: a step identifier gets or changes its status only when a batch
\* processes a step with that identifier, and when the status it gets is ok or
\* failed that step's output key is in the results then; no key leaves the
\* results of an Execution State afterwards, and every status is one of ok,
\* failed and skipped.
C33_StatusesHaveSteps ==
    /\ [][pc /= "planned" =>
            /\ \A id \in DOMAIN state'.step_status :
                  StatusOf(state', id) /= StatusOf(state, id) =>
                      /\ InBatch
                      /\ batch[stepIdx].id = id
                      /\ state'.step_status[id] \in {"ok", "failed"} =>
                            batch[stepIdx].output_key \in DOMAIN state'.results
            /\ DOMAIN state.results \subseteq DOMAIN state'.results
            /\ DOMAIN state.step_status \subseteq DOMAIN state'.step_status]_vars
    /\ [](\A id \in DOMAIN state.step_status :
            /\ state.step_status[id] \in FinalStatuses
            /\ state.step_status[id] \in {"ok", "failed"} => state.results /= <<>>)

\* A fix step has just failed: its identifier has the status failed and its
\* output key holds the failed Tool Result.
C33_Witness ==
    /\ pc = "fix"
    /\ stepIdx >= 2
    /\ StatusOf(state, batch[stepIdx - 1].id) = "failed"
    /\ batch[stepIdx - 1].output_key \in DOMAIN state.results
    /\ ~state.results[batch[stepIdx - 1].output_key].ok

\* The keys that hold a composed text.
TextKeys(st) == {k \in DOMAIN st.results : st.results[k].kind = "text"}

\* C34: every step of a fix batch has a tool name; while a fix batch runs the
\* model is not asked to compose and no composed text is stored or replaced,
\* so a compose step of the Plan that the first batch skipped has no composed
\* result at any later point of the run.
C34_FixBatchesOnlyCallTools ==
    /\ [](pc = "fix" => \A i \in 1..Len(batch) : batch[i].tool_name /= None)
    /\ [][pc = "fix" =>
            /\ lastCall' \notin {"model returned", "model raised"}
            /\ TextKeys(state') \subseteq TextKeys(state)
            /\ \A k \in TextKeys(state') : state'.results[k] = state.results[k]]_vars
    /\ [][(pc \in {"fix", "reverify", "loop"}) =>
            \A i \in 1..Len(plan.steps) :
                (plan.steps[i].tool_name = None
                    /\ plan.steps[i].output_key \notin TextKeys(state))
                => (plan.steps[i].output_key \notin TextKeys(state'))]_vars

\* The run is over after a fix batch: the final step, skipped in the first
\* batch, is still skipped and has no result, the fix step has its own.
C34_Witness ==
    /\ pc = "done"
    /\ {1, 2, 1000} \subseteq DOMAIN state.step_status
    /\ state.step_status[2] = "skipped"
    /\ state.step_status[1000] = "ok"
    /\ plan.steps[2].tool_name = None
    /\ plan.steps[2].output_key \notin DOMAIN state.results
    /\ rounds = 2

====
